---- MODULE Spec2Model ----
(***************************************************************************)
(* AetherCore identity protocol (firmware/ralphie_esp32/identity.h):       *)
(*   genesis_hash = hex(BLAKE3(hardware_id + public_key + salt))           *)
(* Characters are their ASCII codes; a C string buffer is a sequence of    *)
(* characters holding a NUL (0) terminator; a logical string (the text a   *)
(* const char* argument points to) is a sequence without NUL.              *)
(***************************************************************************)
EXTENDS Integers, Sequences, FiniteSets

VARIABLES
  block,            \* the IdentityBlock the caller owns
  lifecycle,        \* "uninitialized" | "created" | "verified" | "rejected"
  arg,              \* arguments of the createIdentityBlock call
  v_salt,           \* salt of the last verifyIdentityBlock call
  v_result,         \* return value of the last verifyIdentityBlock call
  stored,           \* the genesis_hash was rewritten by storage since creation
  g_call,           \* which pure function ran last: "none" | "generate" | "hex"
  g_arg,            \* arguments of the last generateGenesisHash call
  preimage,         \* String preimage of that call
  hash_bytes,       \* uint8_t hash_bytes[32] / data of the last bytesToHex call
  hex_out,          \* output buffer of the last bytesToHex call
  pc,               \* per concurrent call: position inside generateGenesisHash
  c_arg,            \* per concurrent call: its arguments
  c_preimage,       \* per concurrent call: its String preimage
  hasher,           \* blake3_hasher objects, by storage slot
  c_hash_bytes,     \* per concurrent call: its hash_bytes[32]
  c_out,            \* per concurrent call: its genesis_hash_out buffer
  c_nested          \* per concurrent call: another call was in progress when it began

recVars == <<block, lifecycle, arg, v_salt, v_result, stored>>
genVars == <<g_call, g_arg, preimage, hash_bytes, hex_out>>
concVars == <<pc, c_arg, c_preimage, hasher, c_hash_bytes, c_out, c_nested>>
vars == <<recVars, genVars, concVars>>

-----------------------------------------------------------------------------
(* Program constants *)

NUL == 0
HW_LEN == 17
PK_LEN == 64
HASH_LEN == 32
BLAKE3_OUT_LEN == 32

(* Model bounds *)

MaxDelta == 1       \* argument lengths range over canonical length +/- MaxDelta
MaxSaltLen == 2     \* salts have at most this many characters
NumCallers == 2     \* concurrent generateGenesisHash calls

-----------------------------------------------------------------------------
(* Characters and inputs *)

CH_0 == 48          \* '0'
CH_A == 65          \* 'A'
CH_F == 70          \* 'F'
CH_f == 102         \* 'f'

Rep(c, n) == [i \in 1..n |-> c]

PlatformType == {"MCU", "SBC"}

\* hardware_id arguments: 'A'.. of the canonical length, shorter and longer,
\* and, from the canonical length up, with a last character '0'
HardwareIds ==
  { Rep(CH_A, n) : n \in (HW_LEN - MaxDelta)..(HW_LEN + MaxDelta) }
    \cup { Rep(CH_A, n - 1) \o <<CH_0>> : n \in HW_LEN..(HW_LEN + MaxDelta) }

\* public_key arguments: '0'.. of the canonical length, shorter and longer, and
\* a second key of the canonical length
PublicKeys ==
  { Rep(CH_0, n) : n \in (PK_LEN - MaxDelta)..(PK_LEN + MaxDelta) }
    \cup { Rep(CH_0, PK_LEN - 1) \o <<CH_A>> }

Salts == { Rep(CH_0, n) : n \in 0..MaxSaltLen } \cup { <<CH_A>> }

-----------------------------------------------------------------------------
(* C library *)

\* strlen: the number of characters before the first NUL
RECURSIVE strlenFrom(_, _)
strlenFrom(buf, i) == IF buf[i] = NUL THEN i - 1 ELSE strlenFrom(buf, i + 1)

strlen(buf) == strlenFrom(buf, 1)

\* String(const char*): the characters before the terminator
CStr(buf) == SubSeq(buf, 1, strlen(buf))

\* strncpy(dst, src, n): the n characters written to dst
strncpy(src, n) == [i \in 1..n |-> IF i <= Len(src) THEN src[i] ELSE NUL]

RECURSIVE strcmpFrom(_, _, _)
strcmpFrom(a, b, i) ==
  IF a[i] # b[i] THEN a[i] - b[i]
  ELSE IF a[i] = NUL THEN 0
  ELSE strcmpFrom(a, b, i + 1)

\* mutant: strcasecmp
ToLower(c) == IF c \in 65..90 THEN c + 32 ELSE c

strcmp_nocase(a, b) ==
  strcmpFrom([i \in 1..Len(a) |-> ToLower(a[i])], [i \in 1..Len(b) |-> ToLower(b[i])], 1)

strcmp(a, b) == strcmpFrom(a, b, 1)

-----------------------------------------------------------------------------
(* BLAKE3: an external primitive with a 32-byte digest and no collisions.  *)
(* The digest packs the input, two bits a character, four characters a     *)
(* byte: injective on strings of at most 128 characters over '0', ':', 'A'.*)

CharCode(c) == CASE c = 48 -> 1 [] c = 58 -> 2 [] c = 65 -> 3 [] OTHER -> 0

CodeAt(input, k) == IF k <= Len(input) THEN CharCode(input[k]) ELSE 0

Blake3Digest(input, out_len) ==
  [i \in 1..out_len |->
     CodeAt(input, 4 * i - 3) + 4 * CodeAt(input, 4 * i - 2)
       + 16 * CodeAt(input, 4 * i - 1) + 64 * CodeAt(input, 4 * i)]

blake3_hasher_init == << >>
blake3_hasher_update(h, input) == h \o input
blake3_hasher_finalize(h, out_len) == Blake3Digest(h, out_len)

-----------------------------------------------------------------------------
(* identity.h *)

hex_chars == <<48, 49, 50, 51, 52, 53, 54, 55, 56, 57, 97, 98, 99, 100, 101, 102>>

\* mutant: the low nibble written first
bytesToHex_lowFirst(data, len) ==
  [j \in 1..(len * 2 + 1) |->
     IF j = len * 2 + 1 THEN NUL
     ELSE IF (j - 1) % 2 = 0
          THEN hex_chars[(data[((j - 1) \div 2) + 1] % 16) + 1]
          ELSE hex_chars[((data[((j - 1) \div 2) + 1] \div 16) % 16) + 1]]

bytesToHex(data, len) ==
  [j \in 1..(len * 2 + 1) |->
     IF j = len * 2 + 1 THEN NUL
     ELSE IF (j - 1) % 2 = 0
          THEN hex_chars[((data[((j - 1) \div 2) + 1] \div 16) % 16) + 1]
          ELSE hex_chars[(data[((j - 1) \div 2) + 1] % 16) + 1]]

blake3_hash(input) ==
  blake3_hasher_finalize(blake3_hasher_update(blake3_hasher_init, input),
                         BLAKE3_OUT_LEN)

\* mutant: the key concatenated first
Preimage_keyFirst(hardware_id, public_key, salt) == public_key \o hardware_id \o salt

\* mutant: a ':' between the fields
Preimage_separated(hardware_id, public_key, salt) ==
  hardware_id \o <<58>> \o public_key \o <<58>> \o salt

\* String preimage = String(hardware_id) + String(public_key) + String(salt)
Preimage(hardware_id, public_key, salt) == hardware_id \o public_key \o salt

generateGenesisHash(hardware_id, public_key, salt) ==
  bytesToHex(blake3_hash(Preimage(hardware_id, public_key, salt)), HASH_LEN)

\* mutant: the hash taken over the fields as stored
createIdentityBlock_hashStored(hardware_id, public_key, salt, platform_type) ==
  [ hardware_id   |-> Append(strncpy(hardware_id, HW_LEN), NUL),
    public_key    |-> Append(strncpy(public_key, PK_LEN), NUL),
    genesis_hash  |-> generateGenesisHash(CStr(Append(strncpy(hardware_id, HW_LEN), NUL)),
                                          CStr(Append(strncpy(public_key, PK_LEN), NUL)),
                                          salt),
    platform_type |-> platform_type ]

createIdentityBlock(hardware_id, public_key, salt, platform_type) ==
  [ hardware_id   |-> Append(strncpy(hardware_id, HW_LEN), NUL),
    public_key    |-> Append(strncpy(public_key, PK_LEN), NUL),
    genesis_hash  |-> generateGenesisHash(hardware_id, public_key, salt),
    platform_type |-> platform_type ]

\* mutant: the fields recomputed in the order public_key, hardware_id, salt
verifyIdentityBlock_keyFirst(b, salt) ==
  LET expected_hash ==
        generateGenesisHash(CStr(b.public_key), CStr(b.hardware_id), salt)
  IN  [ ret |-> strcmp(b.genesis_hash, expected_hash) = 0, block |-> b ]

\* mutant: the expected hash computed into the block's own buffer
verifyIdentityBlock_inPlace(b, salt) ==
  LET expected_hash ==
        generateGenesisHash(CStr(b.hardware_id), CStr(b.public_key), salt)
  IN  [ ret |-> strcmp(expected_hash, expected_hash) = 0,
        block |-> [b EXCEPT !.genesis_hash = expected_hash] ]

\* the return value, and the block as the call leaves it
verifyIdentityBlock(b, salt) ==
  LET expected_hash ==
        generateGenesisHash(CStr(b.hardware_id), CStr(b.public_key), salt)
  IN  [ ret |-> strcmp(b.genesis_hash, expected_hash) = 0, block |-> b ]

-----------------------------------------------------------------------------
(* Record lifecycle: uninitialized -> created -> (verified | rejected)*     *)

NoArg == [h |-> << >>, p |-> << >>, s |-> << >>, t |-> "MCU"]

BlankBlock ==
  [ hardware_id   |-> Rep(NUL, HW_LEN + 1),
    public_key    |-> Rep(NUL, PK_LEN + 1),
    genesis_hash  |-> Rep(NUL, 2 * HASH_LEN + 1),
    platform_type |-> "MCU" ]

RecInit ==
  /\ block = BlankBlock
  /\ lifecycle = "uninitialized"
  /\ arg = NoArg
  /\ v_salt = << >>
  /\ v_result = FALSE
  /\ stored = FALSE

GenInit ==
  /\ g_call = "none"
  /\ g_arg = NoArg
  /\ preimage = << >>
  /\ hash_bytes = Rep(0, HASH_LEN)
  /\ hex_out = Rep(NUL, 2 * HASH_LEN + 1)

Callers == 1..NumCallers

ConcInit ==
  /\ pc = [c \in Callers |-> "idle"]
  /\ c_arg = [c \in Callers |-> NoArg]
  /\ c_preimage = [c \in Callers |-> << >>]
  /\ hasher = [k \in Callers |-> << >>]
  /\ c_hash_bytes = [c \in Callers |-> Rep(0, HASH_LEN)]
  /\ c_out = [c \in Callers |-> Rep(NUL, 2 * HASH_LEN + 1)]
  /\ c_nested = [c \in Callers |-> FALSE]

Init == RecInit /\ GenInit /\ ConcInit

CreateIdentityBlock(h, p, s, t) ==
  /\ lifecycle = "uninitialized"
  /\ block' = createIdentityBlock(h, p, s, t)
  /\ arg' = [h |-> h, p |-> p, s |-> s, t |-> t]
  /\ lifecycle' = "created"
  /\ UNCHANGED <<v_salt, v_result, stored, genVars, concVars>>

VerifyIdentityBlock(s) ==
  /\ lifecycle # "uninitialized"
  /\ LET r == verifyIdentityBlock(block, s)
     IN  /\ v_result' = r.ret
         /\ block' = r.block
         /\ lifecycle' = IF r.ret THEN "verified" ELSE "rejected"
  /\ v_salt' = s
  /\ UNCHANGED <<arg, stored, genVars, concVars>>

\* The record's storage is outside the protocol: a stored genesis_hash may come
\* back with a character changed (its case included) or cut short. The record
\* read back has not been verified yet.
StoreWrites == { <<1, CH_F>>, <<1, CH_f>>, <<1, NUL>> }

StoreGenesisHash(w) ==
  /\ lifecycle # "uninitialized"
  /\ block.genesis_hash[w[1]] # w[2]
  /\ block' = [block EXCEPT !.genesis_hash[w[1]] = w[2]]
  /\ stored' = TRUE
  /\ lifecycle' = "created"
  /\ v_salt' = << >>
  /\ v_result' = FALSE
  /\ UNCHANGED <<arg, genVars, concVars>>

Next ==
  \/ \E h \in HardwareIds, p \in PublicKeys, s \in Salts, t \in PlatformType :
       CreateIdentityBlock(h, p, s, t)
  \/ \E s \in Salts : VerifyIdentityBlock(s)
  \/ \E w \in StoreWrites : StoreGenesisHash(w)

Spec == Init /\ [][Next]_vars

-----------------------------------------------------------------------------
(* The pure functions, each behaviour one call on inputs from bounded sets *)

\* 32-byte digests: every byte value, and the extreme bytes at every index
DigestSamples ==
  { [i \in 1..HASH_LEN |-> (b + 37 * i) % 256] : b \in 0..255 }
    \cup { [i \in 1..HASH_LEN |-> IF i = k THEN b1 ELSE b2] :
             k \in 1..HASH_LEN, b1 \in {0, 255}, b2 \in {0, 255} }

GenerateGenesisHash(h, p, s) ==
  /\ g_call = "none"
  /\ g_call' = "generate"
  /\ g_arg' = [h |-> h, p |-> p, s |-> s, t |-> "MCU"]
  /\ preimage' = Preimage(h, p, s)
  /\ hash_bytes' = blake3_hash(Preimage(h, p, s))
  /\ hex_out' = generateGenesisHash(h, p, s)
  /\ UNCHANGED <<recVars, concVars>>

BytesToHex(d) ==
  /\ g_call = "none"
  /\ g_call' = "hex"
  /\ g_arg' = NoArg
  /\ preimage' = << >>
  /\ hash_bytes' = d
  /\ hex_out' = bytesToHex(d, HASH_LEN)
  /\ UNCHANGED <<recVars, concVars>>

NextHash ==
  \/ \E h \in HardwareIds, p \in PublicKeys, s \in Salts : GenerateGenesisHash(h, p, s)
  \/ \E d \in DigestSamples : BytesToHex(d)

SpecHash == Init /\ [][NextHash]_vars

-----------------------------------------------------------------------------
(* Concurrent calls of generateGenesisHash, one step a statement *)

\* mutant: `static blake3_hasher hasher;`, one object for every call
HasherOf_static(c) == 1

\* `blake3_hasher hasher;` is a local of blake3_hash: each call has its own
HasherOf(c) == c

ConcArgs ==
  { [h |-> Rep(CH_A, HW_LEN), p |-> Rep(CH_0, PK_LEN), s |-> s, t |-> "MCU"] :
      s \in { << >>, <<CH_A>> } }

InProgress(c) == pc[c] \notin {"idle", "done"}

Enter(c, a) ==
  /\ pc[c] = "idle"
  /\ c_arg' = [c_arg EXCEPT ![c] = a]
  /\ c_nested' = [c_nested EXCEPT ![c] = \E o \in Callers \ {c} : InProgress(o)]
  /\ pc' = [pc EXCEPT ![c] = "concat"]
  /\ UNCHANGED <<c_preimage, hasher, c_hash_bytes, c_out, recVars, genVars>>

Concat(c) ==
  /\ pc[c] = "concat"
  /\ c_preimage' = [c_preimage EXCEPT ![c] = Preimage(c_arg[c].h, c_arg[c].p, c_arg[c].s)]
  /\ pc' = [pc EXCEPT ![c] = "init"]
  /\ UNCHANGED <<c_arg, hasher, c_hash_bytes, c_out, c_nested, recVars, genVars>>

HasherInit(c) ==
  /\ pc[c] = "init"
  /\ hasher' = [hasher EXCEPT ![HasherOf(c)] = blake3_hasher_init]
  /\ pc' = [pc EXCEPT ![c] = "update"]
  /\ UNCHANGED <<c_arg, c_preimage, c_hash_bytes, c_out, c_nested, recVars, genVars>>

HasherUpdate(c) ==
  /\ pc[c] = "update"
  /\ hasher' = [hasher EXCEPT ![HasherOf(c)] =
                  blake3_hasher_update(hasher[HasherOf(c)], c_preimage[c])]
  /\ pc' = [pc EXCEPT ![c] = "finalize"]
  /\ UNCHANGED <<c_arg, c_preimage, c_hash_bytes, c_out, c_nested, recVars, genVars>>

HasherFinalize(c) ==
  /\ pc[c] = "finalize"
  /\ c_hash_bytes' = [c_hash_bytes EXCEPT ![c] =
                        blake3_hasher_finalize(hasher[HasherOf(c)], BLAKE3_OUT_LEN)]
  /\ pc' = [pc EXCEPT ![c] = "hex"]
  /\ UNCHANGED <<c_arg, c_preimage, hasher, c_out, c_nested, recVars, genVars>>

HexEncode(c) ==
  /\ pc[c] = "hex"
  /\ c_out' = [c_out EXCEPT ![c] = bytesToHex(c_hash_bytes[c], HASH_LEN)]
  /\ pc' = [pc EXCEPT ![c] = "done"]
  /\ UNCHANGED <<c_arg, c_preimage, hasher, c_hash_bytes, c_nested, recVars, genVars>>

\* the frame is popped; the hasher's storage keeps what the call left in it
Return(c) ==
  /\ pc[c] = "done"
  /\ pc' = [pc EXCEPT ![c] = "idle"]
  /\ c_arg' = [c_arg EXCEPT ![c] = NoArg]
  /\ c_preimage' = [c_preimage EXCEPT ![c] = << >>]
  /\ c_hash_bytes' = [c_hash_bytes EXCEPT ![c] = Rep(0, HASH_LEN)]
  /\ c_out' = [c_out EXCEPT ![c] = Rep(NUL, 2 * HASH_LEN + 1)]
  /\ c_nested' = [c_nested EXCEPT ![c] = FALSE]
  /\ UNCHANGED <<hasher, recVars, genVars>>

NextConc ==
  \E c \in Callers :
    \/ \E a \in ConcArgs : Enter(c, a)
    \/ Concat(c)
    \/ HasherInit(c)
    \/ HasherUpdate(c)
    \/ HasherFinalize(c)
    \/ HexEncode(c)
    \/ Return(c)

SpecConc == Init /\ [][NextConc]_vars

-----------------------------------------------------------------------------
(* Properties *)

Verified == lifecycle \in {"verified", "rejected"}

CanonicalLengths(h, p) == Len(h) = HW_LEN /\ Len(p) = PK_LEN

Take(s, n) == SubSeq(s, 1, IF Len(s) < n THEN Len(s) ELSE n)

\* C1: a block created from a 17-character hardware_id and a 64-character
\* public_key, verified with the salt of its creation, verifies: the call
\* returns true.
VerificationSoundness ==
  (Verified /\ ~stored /\ CanonicalLengths(arg.h, arg.p) /\ v_salt = arg.s)
    => v_result = TRUE

VerificationSoundnessWitness ==
  /\ lifecycle = "verified"
  /\ ~stored
  /\ CanonicalLengths(arg.h, arg.p)
  /\ v_salt = arg.s
  /\ v_result = TRUE

\* C2: a block created with salt s1, whatever the hardware_id and public_key,
\* never verifies with another salt s2 # s1.
WrongSaltRejection ==
  (Verified /\ ~stored /\ v_salt # arg.s) => v_result = FALSE

\* C3: verification returns true exactly when the stored genesis_hash equals,
\* character for character, the hash recomputed from the block's own
\* hardware_id and public_key and the given salt; a difference of case or of
\* length makes it false.
VerificationIsExactEquality ==
  Verified =>
    (v_result <=>
       CStr(block.genesis_hash)
         = CStr(generateGenesisHash(CStr(block.hardware_id), CStr(block.public_key), v_salt)))

\* a stored hash that differs from the recomputed one in case only is rejected
VerificationIsExactEqualityWitness ==
  /\ lifecycle = "rejected"
  /\ stored
  /\ v_salt = arg.s
  /\ CanonicalLengths(arg.h, arg.p)
  /\ block.genesis_hash[1] = CH_F
  /\ generateGenesisHash(CStr(block.hardware_id), CStr(block.public_key), v_salt)[1] = CH_f
  /\ \A i \in 2..(2 * HASH_LEN + 1) :
       block.genesis_hash[i]
         = generateGenesisHash(CStr(block.hardware_id), CStr(block.public_key), v_salt)[i]

\* C4: for every input, the created block holds the hardware_id, the
\* public_key and the platform_type it was given.
StoredVerbatim ==
  lifecycle # "uninitialized" =>
    /\ CStr(block.hardware_id) = arg.h
    /\ CStr(block.public_key) = arg.p
    /\ block.platform_type = arg.t

\* the character of a nibble: '0'..'9', 'a'..'f'
HexDigit(n) == IF n < 10 THEN 48 + n ELSE 87 + n

\* C5: the hex encoding of a 32-byte digest is 64 characters of
\* "0123456789abcdef", the high nibble of byte i at 2i and the low nibble at
\* 2i+1, terminated there; digests that differ in a byte encode differently.
HexEncodingFixedWidthLowercase ==
  g_call # "none" =>
    /\ Len(hex_out) = 2 * HASH_LEN + 1
    /\ strlen(hex_out) = 2 * HASH_LEN
    /\ \A i \in 0..(HASH_LEN - 1) :
         /\ hex_out[2 * i + 1] = HexDigit(hash_bytes[i + 1] \div 16)
         /\ hex_out[2 * i + 2] = HexDigit(hash_bytes[i + 1] % 16)
    /\ \A j \in 1..(2 * HASH_LEN) : hex_out[j] \in (48..57) \cup (97..102)
    /\ \A k \in 1..HASH_LEN :
         \A b \in { (hash_bytes[k] + 1) % 256, (hash_bytes[k] + 16) % 256,
                    255 - hash_bytes[k] } :
           bytesToHex([hash_bytes EXCEPT ![k] = b], HASH_LEN) # hex_out

\* a digest whose first byte 0xa5 has a letter and a digit nibble
HexEncodingWitness ==
  /\ g_call = "hex"
  /\ hash_bytes[1] = 165
  /\ hex_out[1] = 97
  /\ hex_out[2] = 53

\* the preimage read character by character off the three arguments
PreimageInOrder ==
  /\ Len(preimage) = Len(g_arg.h) + Len(g_arg.p) + Len(g_arg.s)
  /\ \A i \in 1..Len(preimage) :
       preimage[i] =
         IF i <= Len(g_arg.h) THEN g_arg.h[i]
         ELSE IF i <= Len(g_arg.h) + Len(g_arg.p) THEN g_arg.p[i - Len(g_arg.h)]
         ELSE g_arg.s[i - Len(g_arg.h) - Len(g_arg.p)]

\* C6 (as claimed): the preimage is hardware_id, public_key, salt in that
\* order with nothing added, and swapping any two fields changes the hash
\* (read for three non-empty, pairwise different fields).
FieldOrderSwapChangesHash ==
  (g_call = "generate" /\ g_arg.s # << >>
     /\ g_arg.h # g_arg.p /\ g_arg.p # g_arg.s /\ g_arg.h # g_arg.s) =>
    /\ PreimageInOrder
    /\ generateGenesisHash(g_arg.p, g_arg.h, g_arg.s) # hex_out
    /\ generateGenesisHash(g_arg.h, g_arg.s, g_arg.p) # hex_out
    /\ generateGenesisHash(g_arg.s, g_arg.p, g_arg.h) # hex_out

\* C6 (amended): the preimage is hardware_id, public_key, salt in that order
\* with nothing added, and swapping two fields changes the hash exactly when
\* it changes the concatenated string.
FieldOrderSwapChangesHashIffStringChanges ==
  g_call = "generate" =>
    /\ PreimageInOrder
    /\ (generateGenesisHash(g_arg.p, g_arg.h, g_arg.s) # hex_out)
         <=> (g_arg.p \o g_arg.h \o g_arg.s # g_arg.h \o g_arg.p \o g_arg.s)
    /\ (generateGenesisHash(g_arg.h, g_arg.s, g_arg.p) # hex_out)
         <=> (g_arg.h \o g_arg.s \o g_arg.p # g_arg.h \o g_arg.p \o g_arg.s)
    /\ (generateGenesisHash(g_arg.s, g_arg.p, g_arg.h) # hex_out)
         <=> (g_arg.s \o g_arg.p \o g_arg.h # g_arg.h \o g_arg.p \o g_arg.s)

\* canonical fields: swapping hardware_id and public_key changes the hash,
\* swapping the all-'0' public_key and the salt "0" does not
FieldOrderWitness ==
  /\ g_call = "generate"
  /\ CanonicalLengths(g_arg.h, g_arg.p)
  /\ g_arg.s = <<CH_0>>
  /\ generateGenesisHash(g_arg.p, g_arg.h, g_arg.s) # hex_out
  /\ generateGenesisHash(g_arg.h, g_arg.s, g_arg.p) = hex_out

\* C7: a verification step, whatever it returns, leaves every field of the
\* block as it was.
VerifyNeverAltersRecord ==
  [][block' = block \/ ~(\E s \in Salts : VerifyIdentityBlock(s))]_vars

\* a rejected block that still holds what createIdentityBlock wrote
VerifyNeverAltersRecordWitness ==
  /\ lifecycle = "rejected"
  /\ ~stored
  /\ v_salt # arg.s
  /\ CStr(block.hardware_id) = arg.h
  /\ CStr(block.public_key) = arg.p
  /\ block.genesis_hash = generateGenesisHash(arg.h, arg.p, arg.s)
  /\ block.platform_type = arg.t

\* C8: under any interleaving of the steps of concurrent calls, a call that
\* finishes returns what generateGenesisHash returns for its arguments alone.
ConcurrentCallsIndependent ==
  \A c \in Callers :
    pc[c] = "done" => c_out[c] = generateGenesisHash(c_arg[c].h, c_arg[c].p, c_arg[c].s)

\* two finished calls with different salts, the first run inside the second
ConcurrentCallsWitness ==
  /\ pc[1] = "done"
  /\ pc[2] = "done"
  /\ c_nested[1]
  /\ c_arg[1].s # c_arg[2].s
  /\ c_out[1] # c_out[2]

\* C9: a hardware_id longer than 17 or a public_key longer than 64 characters
\* gives a block, stored cut to 17 / 64 characters, whose hash is taken over
\* the arguments uncut, and that block does not verify with its own salt.
OversizedInputUnverifiable ==
  (lifecycle # "uninitialized" /\ ~stored
     /\ (Len(arg.h) > HW_LEN \/ Len(arg.p) > PK_LEN))
    => /\ CStr(block.hardware_id) = Take(arg.h, HW_LEN)
       /\ CStr(block.public_key) = Take(arg.p, PK_LEN)
       /\ block.genesis_hash = generateGenesisHash(arg.h, arg.p, arg.s)
       /\ (Verified /\ v_salt = arg.s) => v_result = FALSE

OversizedInputWitness ==
  /\ lifecycle = "rejected"
  /\ ~stored
  /\ Len(arg.h) > HW_LEN
  /\ Len(arg.p) = PK_LEN
  /\ v_salt = arg.s
  /\ v_result = FALSE

Triples == HardwareIds \X PublicKeys \X Salts

\* C10: among triples with a 17-character hardware_id and a 64-character
\* public_key equal hashes mean equal triples; without the length restriction
\* two triples whose concatenations coincide have equal hashes.
GenesisHashBindsCanonicalFields ==
  g_call = "generate" =>
    \A x \in Triples :
      /\ (CanonicalLengths(g_arg.h, g_arg.p) /\ CanonicalLengths(x[1], x[2])
            /\ generateGenesisHash(x[1], x[2], x[3]) = hex_out)
           => x = <<g_arg.h, g_arg.p, g_arg.s>>
      /\ (x[1] \o x[2] \o x[3] = g_arg.h \o g_arg.p \o g_arg.s)
           => generateGenesisHash(x[1], x[2], x[3]) = hex_out

\* a character moved across the hardware_id / public_key boundary
GenesisHashBoundaryWitness ==
  /\ g_call = "generate"
  /\ g_arg.h = Rep(CH_A, HW_LEN - 1) \o <<CH_0>>
  /\ g_arg.p = Rep(CH_0, PK_LEN)
  /\ <<Rep(CH_A, HW_LEN - 1), Rep(CH_0, PK_LEN + 1), g_arg.s>> \in Triples
  /\ generateGenesisHash(Rep(CH_A, HW_LEN - 1), Rep(CH_0, PK_LEN + 1), g_arg.s) = hex_out

====
